---- MODULE Spec2Model ----
(***************************************************************************)
(* The chess engine of useChessEngine (src/unnamed/part_000, lines 213 to  *)
(* 942): the hook's state, its event handlers (handleSquareClick,          *)
(* handlePieceMove, makeMove, resetGame) and the pure helper functions     *)
(* (move generation, attack analysis, legality filter, notation).          *)
(*                                                                         *)
(* Conventions.  A square is a record [row, col] with row 0 black's back   *)
(* rank and row 7 white's.  A board cell holds a piece record or NoPiece   *)
(* (the code's null); an absent hasMoved (undefined) is FALSE.  A null     *)
(* square (selectedSquare, enPassantTarget) is NoSquare.  The code's move  *)
(* lists are modelled as sets of squares: the code only tests them for     *)
(* membership (some), emptiness (length > 0) and filters them.             *)
(***************************************************************************)
EXTENDS Integers, Sequences, FiniteSets, TLC

VARIABLES board, currentPlayer, selectedSquare, moveHistory, gameStatus,
          enPassantTarget

vars == <<board, currentPlayer, selectedSquare, moveHistory, gameStatus,
          enPassantTarget>>

\* The fields the spec calls the game state (everything but the selection).
gameVars == <<board, currentPlayer, moveHistory, gameStatus, enPassantTarget>>

-----------------------------------------------------------------------------
(* Data *)

Rows == 0 .. 7
Cols == 0 .. 7

Sq(r, c) == [row |-> r, col |-> c]

NoSquare == [row |-> -1, col |-> -1]

Squares == {Sq(r, c) : r \in Rows, c \in Cols}

NoPiece == [type |-> "none", color |-> "none", hasMoved |-> FALSE]

Piece(t, c) == [type |-> t, color |-> c, hasMoved |-> FALSE]

pieceOrder ==
  [c \in Cols |->
     CASE c = 0 -> "rook"   [] c = 1 -> "knight" [] c = 2 -> "bishop"
       [] c = 3 -> "queen"  [] c = 4 -> "king"   [] c = 5 -> "bishop"
       [] c = 6 -> "knight" [] OTHER -> "rook"]

createInitialBoard ==
  [r \in Rows |->
     [c \in Cols |->
        CASE r = 7 -> Piece(pieceOrder[c], "white")
          [] r = 6 -> Piece("pawn", "white")
          [] r = 0 -> Piece(pieceOrder[c], "black")
          [] r = 1 -> Piece("pawn", "black")
          [] OTHER -> NoPiece]]

Abs(n) == IF n < 0 THEN -n ELSE n

Sign(n) == IF n = 0 THEN 0 ELSE IF n < 0 THEN -1 ELSE 1

Opponent(color) == IF color = "white" THEN "black" ELSE "white"

isInBounds(square) ==
  square.row >= 0 /\ square.row < 8 /\ square.col >= 0 /\ square.col < 8

\* board[square.row][square.col]
At(b, square) == b[square.row][square.col]

\* Reading board[square.row][square.col] for a square handed in from
\* outside: for a row outside the board, board[square.row] is undefined and
\* reading a property of it throws a TypeError.
IndexThrows(square) == square.row \notin Rows

\* The value of board[square.row][square.col] when the read does not throw:
\* a col outside the row reads undefined, which the code treats as no piece.
Cell(b, square) ==
  IF square.col \in Cols THEN b[square.row][square.col] ELSE NoPiece

-----------------------------------------------------------------------------
(* Attack analysis *)

\* The loop walks from `from` towards `to` one step at a time and fails on
\* the first occupied square strictly between them.
isPathClear(b, from, to) ==
  LET rowDir == Sign(to.row - from.row)
      colDir == Sign(to.col - from.col)
      dist   == IF Abs(to.row - from.row) > Abs(to.col - from.col)
                THEN Abs(to.row - from.row) ELSE Abs(to.col - from.col)
  IN  \A k \in 1 .. (dist - 1) :
        b[from.row + k * rowDir][from.col + k * colDir] = NoPiece

\* Mutant: the queen's diagonal test is forgotten (she attacks as a rook).
canPieceAttackSquare_QueenAsRook(b, from, to) ==
  LET piece   == At(b, from)
      rowDiff == Abs(from.row - to.row)
      colDiff == Abs(from.col - to.col)
  IN  CASE piece.type = "pawn" ->
             LET direction == IF piece.color = "white" THEN -1 ELSE 1
             IN  to.row = from.row + direction /\ colDiff = 1
        [] piece.type = "rook" ->
             (from.row = to.row \/ from.col = to.col) /\ isPathClear(b, from, to)
        [] piece.type = "knight" ->
             (rowDiff = 2 /\ colDiff = 1) \/ (rowDiff = 1 /\ colDiff = 2)
        [] piece.type = "bishop" ->
             rowDiff = colDiff /\ isPathClear(b, from, to)
        [] piece.type = "queen" ->
             (from.row = to.row \/ from.col = to.col)
             /\ isPathClear(b, from, to)
        [] piece.type = "king" ->
             rowDiff <= 1 /\ colDiff <= 1
        [] OTHER -> FALSE

canPieceAttackSquare(b, from, to) ==
  LET piece   == At(b, from)
      rowDiff == Abs(from.row - to.row)
      colDiff == Abs(from.col - to.col)
  IN  CASE piece.type = "pawn" ->
             LET direction == IF piece.color = "white" THEN -1 ELSE 1
             IN  to.row = from.row + direction /\ colDiff = 1
        [] piece.type = "rook" ->
             (from.row = to.row \/ from.col = to.col) /\ isPathClear(b, from, to)
        [] piece.type = "knight" ->
             (rowDiff = 2 /\ colDiff = 1) \/ (rowDiff = 1 /\ colDiff = 2)
        [] piece.type = "bishop" ->
             rowDiff = colDiff /\ isPathClear(b, from, to)
        [] piece.type = "queen" ->
             ((from.row = to.row \/ from.col = to.col) \/ rowDiff = colDiff)
             /\ isPathClear(b, from, to)
        [] piece.type = "king" ->
             rowDiff <= 1 /\ colDiff <= 1
        [] OTHER -> FALSE

isSquareUnderAttack(b, square, attackingColor) ==
  \E r \in Rows, c \in Cols :
     /\ b[r][c] # NoPiece
     /\ b[r][c].color = attackingColor
     /\ canPieceAttackSquare(b, Sq(r, c), square)

\* The squares holding a king of kingColor.
KingSquares(b, kingColor) ==
  {s \in Squares : At(b, s).type = "king" /\ At(b, s).color = kingColor}

\* The scan is row-major and stops at the first king found.
kingPosition(b, kingColor) ==
  LET ks == KingSquares(b, kingColor)
  IN  IF ks = {} THEN NoSquare
      ELSE CHOOSE s \in ks :
             \A t \in ks : s.row * 8 + s.col <= t.row * 8 + t.col

isKingInCheck(b, kingColor) ==
  LET kp == kingPosition(b, kingColor)
  IN  IF kp = NoSquare THEN FALSE
      ELSE isSquareUnderAttack(b, kp, Opponent(kingColor))

-----------------------------------------------------------------------------
(* Move generation *)

\* Mutant: a pawn on its start row has no double step.
getPawnMoves_NoDoubleStep(b, from, ept) ==
  LET piece      == At(b, from)
      direction  == IF piece.color = "white" THEN -1 ELSE 1
      oneForward == Sq(from.row + direction, from.col)
      forward    ==
        IF isInBounds(oneForward) /\ At(b, oneForward) = NoPiece
        THEN {oneForward} ELSE {}
      captures   ==
        {cs \in {Sq(from.row + direction, from.col + colOffset) :
                   colOffset \in {-1, 1}} :
           /\ isInBounds(cs)
           /\ At(b, cs) # NoPiece
           /\ At(b, cs).color # piece.color}
      enPassant  ==
        IF ept # NoSquare
           /\ Abs(from.col - ept.col) = 1
           /\ from.row = ept.row + direction
        THEN {Sq(ept.row, ept.col)} ELSE {}
  IN  forward \cup captures \cup enPassant

getPawnMoves(b, from, ept) ==
  LET piece      == At(b, from)
      direction  == IF piece.color = "white" THEN -1 ELSE 1
      startRow   == IF piece.color = "white" THEN 6 ELSE 1
      oneForward == Sq(from.row + direction, from.col)
      twoForward == Sq(from.row + 2 * direction, from.col)
      forward    ==
        IF isInBounds(oneForward) /\ At(b, oneForward) = NoPiece
        THEN {oneForward} \cup
             (IF from.row = startRow /\ isInBounds(twoForward)
                 /\ At(b, twoForward) = NoPiece
              THEN {twoForward} ELSE {})
        ELSE {}
      captures   ==
        {cs \in {Sq(from.row + direction, from.col + colOffset) :
                   colOffset \in {-1, 1}} :
           /\ isInBounds(cs)
           /\ At(b, cs) # NoPiece
           /\ At(b, cs).color # piece.color}
      enPassant  ==
        IF ept # NoSquare
           /\ Abs(from.col - ept.col) = 1
           /\ from.row = ept.row + direction
        THEN {Sq(ept.row, ept.col)} ELSE {}
  IN  forward \cup captures \cup enPassant

\* The squares a slider on `from` reaches in direction (dr, dc): every empty
\* square up to the first occupied one, and that one if it holds an
\* opposing piece.
Slide(b, from, dr, dc) ==
  {Sq(from.row + k * dr, from.col + k * dc) : k \in
     {k \in 1 .. 7 :
        /\ isInBounds(Sq(from.row + k * dr, from.col + k * dc))
        /\ \A j \in 1 .. (k - 1) :
             b[from.row + j * dr][from.col + j * dc] = NoPiece
        /\ \/ b[from.row + k * dr][from.col + k * dc] = NoPiece
           \/ b[from.row + k * dr][from.col + k * dc].color
                # At(b, from).color}}

getRookMoves(b, from) ==
  Slide(b, from, 0, 1) \cup Slide(b, from, 0, -1)
    \cup Slide(b, from, 1, 0) \cup Slide(b, from, -1, 0)

getBishopMoves(b, from) ==
  Slide(b, from, 1, 1) \cup Slide(b, from, 1, -1)
    \cup Slide(b, from, -1, 1) \cup Slide(b, from, -1, -1)

getQueenMoves(b, from) == getRookMoves(b, from) \cup getBishopMoves(b, from)

knightMoves ==
  {<<-2, -1>>, <<-2, 1>>, <<-1, -2>>, <<-1, 2>>,
   <<1, -2>>, <<1, 2>>, <<2, -1>>, <<2, 1>>}

kingMoves ==
  {<<-1, -1>>, <<-1, 0>>, <<-1, 1>>, <<0, -1>>,
   <<0, 1>>, <<1, -1>>, <<1, 0>>, <<1, 1>>}

\* Fixed-offset moves: in bounds and onto an empty square or an opposing piece.
OffsetMoves(b, from, offsets) ==
  {to \in {Sq(from.row + o[1], from.col + o[2]) : o \in offsets} :
     /\ isInBounds(to)
     /\ (At(b, to) = NoPiece \/ At(b, to).color # At(b, from).color)}

getKnightMoves(b, from) == OffsetMoves(b, from, knightMoves)

\* Mutant: the rooks' hasMoved flags are not tested.
CastlingMoves_IgnoreRookMoved(b, from) ==
  LET piece         == At(b, from)
      kingSideRook  == b[from.row][7]
      queenSideRook == b[from.row][0]
      attacker      == Opponent(piece.color)
      kingSide ==
        IF /\ kingSideRook # NoPiece
           /\ kingSideRook.type = "rook"
           /\ b[from.row][5] = NoPiece /\ b[from.row][6] = NoPiece
           /\ ~\E sq \in {Sq(from.row, 5), Sq(from.row, 6)} :
                 isSquareUnderAttack(b, sq, attacker)
        THEN {Sq(from.row, 6)} ELSE {}
      queenSide ==
        IF /\ queenSideRook # NoPiece
           /\ queenSideRook.type = "rook"
           /\ b[from.row][1] = NoPiece /\ b[from.row][2] = NoPiece
           /\ b[from.row][3] = NoPiece
           /\ ~\E sq \in {Sq(from.row, 2), Sq(from.row, 3)} :
                 isSquareUnderAttack(b, sq, attacker)
        THEN {Sq(from.row, 2)} ELSE {}
  IN  IF ~piece.hasMoved /\ ~isKingInCheck(b, piece.color)
      THEN kingSide \cup queenSide
      ELSE {}

\* The castling destinations appended by getKingMoves.
CastlingMoves(b, from) ==
  LET piece         == At(b, from)
      kingSideRook  == b[from.row][7]
      queenSideRook == b[from.row][0]
      attacker      == Opponent(piece.color)
      kingSide ==
        IF /\ kingSideRook # NoPiece
           /\ kingSideRook.type = "rook"
           /\ ~kingSideRook.hasMoved
           /\ b[from.row][5] = NoPiece /\ b[from.row][6] = NoPiece
           /\ ~\E sq \in {Sq(from.row, 5), Sq(from.row, 6)} :
                 isSquareUnderAttack(b, sq, attacker)
        THEN {Sq(from.row, 6)} ELSE {}
      queenSide ==
        IF /\ queenSideRook # NoPiece
           /\ queenSideRook.type = "rook"
           /\ ~queenSideRook.hasMoved
           /\ b[from.row][1] = NoPiece /\ b[from.row][2] = NoPiece
           /\ b[from.row][3] = NoPiece
           /\ ~\E sq \in {Sq(from.row, 2), Sq(from.row, 3)} :
                 isSquareUnderAttack(b, sq, attacker)
        THEN {Sq(from.row, 2)} ELSE {}
  IN  IF ~piece.hasMoved /\ ~isKingInCheck(b, piece.color)
      THEN kingSide \cup queenSide
      ELSE {}

\* The moveHistory parameter is accepted and never read by the code.
getKingMoves(b, from, history) ==
  OffsetMoves(b, from, kingMoves) \cup CastlingMoves(b, from)

simulateMove(b, from, to) ==
  [b EXCEPT ![to.row][to.col] = At(b, from),
            ![from.row][from.col] = NoPiece]

\* The moves of the piece on `from` before the self-check filter.
PseudoLegalMoves(b, from, ept, history) ==
  LET piece == At(b, from)
  IN  CASE piece.type = "pawn"   -> getPawnMoves(b, from, ept)
        [] piece.type = "rook"   -> getRookMoves(b, from)
        [] piece.type = "knight" -> getKnightMoves(b, from)
        [] piece.type = "bishop" -> getBishopMoves(b, from)
        [] piece.type = "queen"  -> getQueenMoves(b, from)
        [] piece.type = "king"   -> getKingMoves(b, from, history)
        [] OTHER -> {}

\* Mutant: the self-check filter is dropped.
getValidMoves_NoFilter(b, from, player, ept, history) ==
  LET piece == Cell(b, from)
  IN  IF piece = NoPiece \/ piece.color # player THEN {}
      ELSE PseudoLegalMoves(b, from, ept, history)

getValidMoves(b, from, player, ept, history) ==
  LET piece == Cell(b, from)
  IN  IF piece = NoPiece \/ piece.color # player THEN {}
      ELSE {to \in PseudoLegalMoves(b, from, ept, history) :
              ~isKingInCheck(simulateMove(b, from, to), player)}

isValidMoveAttempt(b, from, to, player, ept, history) ==
  LET piece == Cell(b, from)
  IN  IF piece = NoPiece \/ piece.color # player THEN FALSE
      ELSE to \in getValidMoves(b, from, player, ept, history)

hasValidMoves(b, playerColor, ept, history) ==
  \E r \in Rows, c \in Cols :
     /\ b[r][c] # NoPiece
     /\ b[r][c].color = playerColor
     /\ getValidMoves(b, Sq(r, c), playerColor, ept, history) # {}

-----------------------------------------------------------------------------
(* Notation *)

fileLetters == <<"a", "b", "c", "d", "e", "f", "g", "h">>

rankDigits == <<"1", "2", "3", "4", "5", "6", "7", "8">>

\* `${String.fromCharCode(97 + col)}${8 - row}`
squareName(square) ==
  fileLetters[square.col + 1] \o rankDigits[8 - square.row]

\* type.charAt(0).toUpperCase()
firstLetterUpper(type) ==
  CASE type = "king"   -> "K" [] type = "queen"  -> "Q"
    [] type = "rook"   -> "R" [] type = "bishop" -> "B"
    [] type = "knight" -> "K" [] type = "pawn"   -> "P"
    [] OTHER -> ""

\* Mutant: castling gets the check suffix like any other move.
generateAlgebraicNotation_CastlingWithSuffix(piece, from, to, isCapture, isCheck, isCheckmate, castling, promotion) ==
  LET pieceSymbol     == IF piece.type = "pawn" THEN ""
                         ELSE firstLetterUpper(piece.type)
      toSquare        == squareName(to)
      captureSymbol   == IF isCapture THEN "x" ELSE ""
      checkSymbol     == IF isCheckmate THEN "#"
                         ELSE IF isCheck THEN "+" ELSE ""
      promotionSymbol == IF promotion # "none"
                         THEN "=" \o firstLetterUpper(promotion) ELSE ""
  IN  IF castling # "none"
      THEN (IF castling = "kingside" THEN "O-O" ELSE "O-O-O") \o checkSymbol
      ELSE IF piece.type = "pawn" /\ isCapture
      THEN fileLetters[from.col + 1] \o captureSymbol \o toSquare
             \o promotionSymbol \o checkSymbol
      ELSE pieceSymbol \o captureSymbol \o toSquare
             \o promotionSymbol \o checkSymbol

\* Mutant: a pawn capture is written without the origin file.
generateAlgebraicNotation_NoOriginFile(piece, from, to, isCapture, isCheck, isCheckmate, castling, promotion) ==
  LET pieceSymbol     == IF piece.type = "pawn" THEN ""
                         ELSE firstLetterUpper(piece.type)
      toSquare        == squareName(to)
      captureSymbol   == IF isCapture THEN "x" ELSE ""
      checkSymbol     == IF isCheckmate THEN "#"
                         ELSE IF isCheck THEN "+" ELSE ""
      promotionSymbol == IF promotion # "none"
                         THEN "=" \o firstLetterUpper(promotion) ELSE ""
  IN  IF castling # "none"
      THEN (IF castling = "kingside" THEN "O-O" ELSE "O-O-O")
      ELSE pieceSymbol \o captureSymbol \o toSquare
             \o promotionSymbol \o checkSymbol

generateAlgebraicNotation(piece, from, to, isCapture, isCheck, isCheckmate, castling, promotion) ==
  LET pieceSymbol     == IF piece.type = "pawn" THEN ""
                         ELSE firstLetterUpper(piece.type)
      toSquare        == squareName(to)
      captureSymbol   == IF isCapture THEN "x" ELSE ""
      checkSymbol     == IF isCheckmate THEN "#"
                         ELSE IF isCheck THEN "+" ELSE ""
      promotionSymbol == IF promotion # "none"
                         THEN "=" \o firstLetterUpper(promotion) ELSE ""
  IN  IF castling # "none"
      THEN (IF castling = "kingside" THEN "O-O" ELSE "O-O-O")
      ELSE IF piece.type = "pawn" /\ isCapture
      THEN fileLetters[from.col + 1] \o captureSymbol \o toSquare
             \o promotionSymbol \o checkSymbol
      ELSE pieceSymbol \o captureSymbol \o toSquare
             \o promotionSymbol \o checkSymbol

-----------------------------------------------------------------------------
(* Move execution *)

\* The castling branch: "kingside", "queenside" or "none" (undefined).
CastlingOf(piece, from, to) ==
  IF piece.type = "king" /\ Abs(to.col - from.col) = 2
  THEN (IF to.col > from.col THEN "kingside" ELSE "queenside")
  ELSE "none"

\* The en passant branch.
EnPassantOf(piece, to, ept) ==
  piece.type = "pawn" /\ ept # NoSquare
    /\ to.row = ept.row /\ to.col = ept.col

\* Mutant: no move promotes.
PromotionOf_Never(piece, to) == "none"

\* The promotion branch: "queen" or "none" (undefined).
PromotionOf(piece, to) ==
  IF piece.type = "pawn" /\ (to.row = 0 \/ to.row = 7)
  THEN "queen" ELSE "none"

\* Mutant: the castling rook is relocated without being marked hasMoved.
NewBoard_RookKeepsFlag(b, from, to, ept) ==
  LET piece       == At(b, from)
      castling    == CastlingOf(piece, from, to)
      rookFromCol == IF castling = "kingside" THEN 7 ELSE 0
      rookToCol   == IF castling = "kingside" THEN 5 ELSE 3
      b1 == IF castling # "none"
            THEN [b EXCEPT
                    ![from.row][rookToCol] = b[from.row][rookFromCol],
                    ![from.row][rookFromCol] = NoPiece]
            ELSE b
      b2 == IF EnPassantOf(piece, to, ept)
            THEN [b1 EXCEPT ![from.row][to.col] = NoPiece]
            ELSE b1
      promotion == PromotionOf(piece, to)
      placed == IF promotion # "none"
                THEN [piece EXCEPT !.type = promotion, !.hasMoved = TRUE]
                ELSE [piece EXCEPT !.hasMoved = TRUE]
  IN  [b2 EXCEPT ![to.row][to.col] = placed,
                 ![from.row][from.col] = NoPiece]

\* Mutant: castling copies the rook and leaves it on its corner as well.
NewBoard_RookNotCleared(b, from, to, ept) ==
  LET piece       == At(b, from)
      castling    == CastlingOf(piece, from, to)
      rookFromCol == IF castling = "kingside" THEN 7 ELSE 0
      rookToCol   == IF castling = "kingside" THEN 5 ELSE 3
      b1 == IF castling # "none"
            THEN [b EXCEPT
                    ![from.row][rookToCol] =
                       [b[from.row][rookFromCol] EXCEPT !.hasMoved = TRUE]]
            ELSE b
      b2 == IF EnPassantOf(piece, to, ept)
            THEN [b1 EXCEPT ![from.row][to.col] = NoPiece]
            ELSE b1
      promotion == PromotionOf(piece, to)
      placed == IF promotion # "none"
                THEN [piece EXCEPT !.type = promotion, !.hasMoved = TRUE]
                ELSE [piece EXCEPT !.hasMoved = TRUE]
  IN  [b2 EXCEPT ![to.row][to.col] = placed,
                 ![from.row][from.col] = NoPiece]

\* newBoard after the castling, en passant, promotion and relocation steps.
NewBoard(b, from, to, ept) ==
  LET piece       == At(b, from)
      castling    == CastlingOf(piece, from, to)
      rookFromCol == IF castling = "kingside" THEN 7 ELSE 0
      rookToCol   == IF castling = "kingside" THEN 5 ELSE 3
      b1 == IF castling # "none"
            THEN [b EXCEPT
                    ![from.row][rookToCol] =
                       [b[from.row][rookFromCol] EXCEPT !.hasMoved = TRUE],
                    ![from.row][rookFromCol] = NoPiece]
            ELSE b
      b2 == IF EnPassantOf(piece, to, ept)
            THEN [b1 EXCEPT ![from.row][to.col] = NoPiece]
            ELSE b1
      promotion == PromotionOf(piece, to)
      placed == IF promotion # "none"
                THEN [piece EXCEPT !.type = promotion, !.hasMoved = TRUE]
                ELSE [piece EXCEPT !.hasMoved = TRUE]
  IN  [b2 EXCEPT ![to.row][to.col] = placed,
                 ![from.row][from.col] = NoPiece]

\* Mutant: the target is the pawn's landing square, not the square it passed.
NewEnPassantTarget_Landing(b, from, to) ==
  IF At(b, from).type = "pawn" /\ Abs(to.row - from.row) = 2
  THEN Sq(to.row, from.col)
  ELSE NoSquare

NewEnPassantTarget(b, from, to) ==
  IF At(b, from).type = "pawn" /\ Abs(to.row - from.row) = 2
  THEN Sq((from.row + to.row) \div 2, from.col)
  ELSE NoSquare

\* The move record built by makeMove.
MoveRecord(b, player, ept, history, from, to) ==
  LET newBoard      == NewBoard(b, from, to, ept)
      piece         == At(b, from)
      capturedPiece == At(b, to)
      castling      == CastlingOf(piece, from, to)
      enPassant     == EnPassantOf(piece, to, ept)
      promotion     == PromotionOf(piece, to)
      newEpt        == NewEnPassantTarget(b, from, to)
      opponentColor == Opponent(player)
      isCheck       == isKingInCheck(newBoard, opponentColor)
      canMove       == hasValidMoves(newBoard, opponentColor, newEpt, history)
      isCheckmate   == isCheck /\ ~canMove
      isCapture     == capturedPiece # NoPiece \/ enPassant
  IN  [from |-> from, to |-> to, piece |-> piece,
       capturedPiece |-> capturedPiece,
       isCapture |-> isCapture, isCheck |-> isCheck,
       isCheckmate |-> isCheckmate,
       notation |-> generateAlgebraicNotation(piece, from, to, isCapture,
                      isCheck, isCheckmate, castling, promotion),
       castling |-> castling, enPassant |-> enPassant,
       promotion |-> promotion,
       isStalemate |-> ~isCheck /\ ~canMove]

\* Mutant: the stalemate branch is missing.
StatusOf_NoStalemate(isCheckmate, isStalemate, isCheck) ==
  IF isCheckmate THEN "checkmate"
  ELSE IF isCheck THEN "check"
  ELSE "playing"

\* Mutant: a stalemate is reported as a draw.
StatusOf_StalemateIsDraw(isCheckmate, isStalemate, isCheck) ==
  IF isCheckmate THEN "checkmate"
  ELSE IF isStalemate THEN "draw"
  ELSE IF isCheck THEN "check"
  ELSE "playing"

\* The status makeMove sets from its isCheckmate, isStalemate and isCheck.
StatusOf(isCheckmate, isStalemate, isCheck) ==
  IF isCheckmate THEN "checkmate"
  ELSE IF isStalemate THEN "stalemate"
  ELSE IF isCheck THEN "check"
  ELSE "playing"

\* The fields of a ChessMove (isStalemate is a local of makeMove, not stored).
ChessMove(m) ==
  [from |-> m.from, to |-> m.to, piece |-> m.piece,
   capturedPiece |-> m.capturedPiece, isCapture |-> m.isCapture,
   isCheck |-> m.isCheck, isCheckmate |-> m.isCheckmate,
   notation |-> m.notation, castling |-> m.castling,
   enPassant |-> m.enPassant, promotion |-> m.promotion]

-----------------------------------------------------------------------------
(* Boards as arrays of row arrays *)

\* A board is an array of eight row arrays, and the same row array may be
\* reached through two boards.  A heap maps the identity of a row array to
\* its content; the rows of an operation's input board have the identities
\* 0 to 7, and an array allocated by the operation for row r has r + 8.
RowIds == 0 .. 15

\* The heap when an operation is entered with input board b.
HeapOf(b) == [id \in RowIds |-> IF id \in Rows THEN b[id] ELSE b[id - 8]]

\* Mutant: the copy holds the row arrays of the input board themselves.
BoardCopy_SharesRows == [r \in Rows |-> r]

\* board.map(row => [...row]): row r of the copy is a new array.
BoardCopy == [r \in Rows |-> r + 8]

\* newBoard[row][col] = value, for a board given by the identities of its
\* rows.
WriteCell(heap, rows, row, col, value) ==
  [heap EXCEPT ![rows[row]][col] = value]

\* The board read through the row identities `rows`.
BoardAt(heap, rows) == [r \in Rows |-> heap[rows[r]]]

\* The heap when simulateMove returns.
simulateMoveHeap(b, from, to) ==
  LET newBoard == BoardCopy
      h0       == HeapOf(b)
      piece    == h0[newBoard[from.row]][from.col]
      h1       == WriteCell(h0, newBoard, to.row, to.col, piece)
  IN  WriteCell(h1, newBoard, from.row, from.col, NoPiece)

\* The heap after the writes of makeMove to its newBoard.
makeMoveHeap(b, from, to, ept) ==
  LET newBoard    == BoardCopy
      h0          == HeapOf(b)
      piece       == h0[newBoard[from.row]][from.col]
      castling    == CastlingOf(piece, from, to)
      rookFromCol == IF castling = "kingside" THEN 7 ELSE 0
      rookToCol   == IF castling = "kingside" THEN 5 ELSE 3
      rook        == h0[newBoard[from.row]][rookFromCol]
      h1 == IF castling # "none"
            THEN WriteCell(
                   WriteCell(h0, newBoard, from.row, rookToCol,
                             [rook EXCEPT !.hasMoved = TRUE]),
                   newBoard, from.row, rookFromCol, NoPiece)
            ELSE h0
      h2 == IF EnPassantOf(piece, to, ept)
            THEN WriteCell(h1, newBoard, from.row, to.col, NoPiece)
            ELSE h1
      promotion == PromotionOf(piece, to)
      placed == IF promotion # "none"
                THEN [piece EXCEPT !.type = promotion, !.hasMoved = TRUE]
                ELSE [piece EXCEPT !.hasMoved = TRUE]
      h3 == WriteCell(h2, newBoard, to.row, to.col, placed)
  IN  WriteCell(h3, newBoard, from.row, from.col, NoPiece)

\* The input board b of getValidMoves when the call returns, after the
\* filter has run simulateMove for each of the candidate destinations.
RECURSIVE getValidMovesInputAfter(_, _, _)
getValidMovesInputAfter(b, from, candidates) ==
  IF candidates = {} THEN b
  ELSE LET to == CHOOSE t \in candidates : TRUE
       IN  getValidMovesInputAfter(
             BoardAt(simulateMoveHeap(b, from, to), [r \in Rows |-> r]),
             from, candidates \ {to})

-----------------------------------------------------------------------------
(* The hook: state and handlers *)

Init ==
  /\ board = createInitialBoard
  /\ currentPlayer = "white"
  /\ selectedSquare = NoSquare
  /\ moveHistory = <<>>
  /\ gameStatus = "playing"
  /\ enPassantTarget = NoSquare

\* Mutant: the record is put in front of the history.
makeMove_HistoryPrepends(from, to) ==
  LET m == MoveRecord(board, currentPlayer, enPassantTarget, moveHistory,
                      from, to)
  IN  /\ board' = NewBoard(board, from, to, enPassantTarget)
      /\ moveHistory' = <<ChessMove(m)>> \o moveHistory
      /\ currentPlayer' = Opponent(currentPlayer)
      /\ selectedSquare' = NoSquare
      /\ enPassantTarget' = NewEnPassantTarget(board, from, to)
      /\ gameStatus' = StatusOf(m.isCheckmate, m.isStalemate, m.isCheck)

\* Mutant: the turn is not handed to the opponent.
makeMove_NoTurnFlip(from, to) ==
  LET m == MoveRecord(board, currentPlayer, enPassantTarget, moveHistory,
                      from, to)
  IN  /\ board' = NewBoard(board, from, to, enPassantTarget)
      /\ moveHistory' = Append(moveHistory, ChessMove(m))
      /\ currentPlayer' = currentPlayer
      /\ selectedSquare' = NoSquare
      /\ enPassantTarget' = NewEnPassantTarget(board, from, to)
      /\ gameStatus' = StatusOf(m.isCheckmate, m.isStalemate, m.isCheck)

makeMove(from, to) ==
  LET m == MoveRecord(board, currentPlayer, enPassantTarget, moveHistory,
                      from, to)
  IN  /\ board' = NewBoard(board, from, to, enPassantTarget)
      /\ moveHistory' = Append(moveHistory, ChessMove(m))
      /\ currentPlayer' = Opponent(currentPlayer)
      /\ selectedSquare' = NoSquare
      /\ enPassantTarget' = NewEnPassantTarget(board, from, to)
      /\ gameStatus' = StatusOf(m.isCheckmate, m.isStalemate, m.isCheck)

\* Mutant: a click on a square without an own piece keeps the selection.
SelectionAfterClick_KeepsSelection(b, selected, square, player) ==
  LET piece == Cell(b, square)
  IN  IF piece # NoPiece /\ piece.color = player THEN square ELSE selected

\* The selection that a click which applies no move leaves behind: with a
\* selection, the clicked square when it holds a piece of the player and
\* null otherwise; without one, the clicked square when it holds a piece of
\* the player (and otherwise the selection is not set at all).
SelectionAfterClick(b, selected, square, player) ==
  LET piece == Cell(b, square)
  IN  IF selected # NoSquare
      THEN IF piece # NoPiece /\ piece.color = player
           THEN square
           ELSE NoSquare
      ELSE IF piece # NoPiece /\ piece.color = player
           THEN square
           ELSE selected

\* The handler's first statement reads board[square.row][square.col]; when
\* that throws, the handler is left before any state is set.
handleSquareClick(square) ==
  IF IndexThrows(square) THEN UNCHANGED vars
  ELSE IF /\ selectedSquare # NoSquare
          /\ isValidMoveAttempt(board, selectedSquare, square, currentPlayer,
                                enPassantTarget, moveHistory)
  THEN makeMove(selectedSquare, square)
  ELSE /\ selectedSquare' = SelectionAfterClick(board, selectedSquare, square,
                                                 currentPlayer)
       /\ UNCHANGED gameVars

\* Mutant: a drag is applied whenever the dragged piece is the mover's own.
handlePieceMove_NoLegalityTest(from, to) ==
  IF IndexThrows(from) THEN UNCHANGED vars
  ELSE IF Cell(board, from) # NoPiece
          /\ Cell(board, from).color = currentPlayer
          /\ isInBounds(to)
  THEN makeMove(from, to) /\ selectedSquare' = NoSquare
  ELSE UNCHANGED vars

\* isValidMoveAttempt reads board[from.row][from.col] first; when that
\* throws, the handler is left before any state is set.
handlePieceMove(from, to) ==
  IF IndexThrows(from) THEN UNCHANGED vars
  ELSE IF isValidMoveAttempt(board, from, to, currentPlayer, enPassantTarget,
                             moveHistory)
  THEN makeMove(from, to) /\ selectedSquare' = NoSquare
  ELSE UNCHANGED vars

\* Mutant: the en passant target survives the reset.
resetGame_KeepsEnPassantTarget ==
  /\ board' = createInitialBoard
  /\ currentPlayer' = "white"
  /\ selectedSquare' = NoSquare
  /\ moveHistory' = <<>>
  /\ gameStatus' = "playing"
  /\ enPassantTarget' = enPassantTarget

resetGame ==
  /\ board' = createInitialBoard
  /\ currentPlayer' = "white"
  /\ selectedSquare' = NoSquare
  /\ moveHistory' = <<>>
  /\ gameStatus' = "playing"
  /\ enPassantTarget' = NoSquare

\* The memoized legal destinations of the selected piece; empty when
\* nothing is selected.
validMoves ==
  IF selectedSquare = NoSquare
  THEN {}
  ELSE getValidMoves(board, selectedSquare, currentPlayer, enPassantTarget,
                     moveHistory)

\* The memoized test whether the side to move is in check.
isInCheck == isKingInCheck(board, currentPlayer)

\* Mutant: the king of either colour is highlighted while the side to move
\* is in check.
getSquareColor_AnyKing(square, selected, valid, inCheck, b, player) ==
  IF selected # NoSquare /\ square.row = selected.row
     /\ square.col = selected.col
  THEN "selected"
  ELSE IF \E move \in valid : move.row = square.row /\ move.col = square.col
  THEN "valid"
  ELSE IF inCheck /\ b[square.row][square.col] # NoPiece
          /\ b[square.row][square.col].type = "king"
  THEN "check"
  ELSE "normal"

\* The highlight of a square, computed from the values the callback closes
\* over: selectedSquare, validMoves, isInCheck, board and currentPlayer.
getSquareColor(square, selected, valid, inCheck, b, player) ==
  IF selected # NoSquare /\ square.row = selected.row
     /\ square.col = selected.col
  THEN "selected"
  ELSE IF \E move \in valid : move.row = square.row /\ move.col = square.col
  THEN "valid"
  ELSE IF inCheck /\ b[square.row][square.col] # NoPiece
          /\ b[square.row][square.col].type = "king"
          /\ b[square.row][square.col].color = player
  THEN "check"
  ELSE "normal"

-----------------------------------------------------------------------------
(* Bounds and inputs *)

\* The longest game explored by Spec, in plies.
MaxPly == 9

\* The longest game explored by SpecCastling, in plies.
MaxPlyCastling == 10

\* Under SpecStalemate drags are tried while fewer plies have been played;
\* the stalemate line has 19, so drags are still tried on its last position.
MaxPlyStalemate == 20

fileCol == [a |-> 0, b |-> 1, c |-> 2, d |-> 3, e |-> 4, f |-> 5, g |-> 6,
            h |-> 7]

\* The square with algebraic name file-rank, e.g. A("e", 2).
A(file, rank) == Sq(8 - rank, fileCol[file])

\* The drags <<from, to>> the user tries under Spec: a queenside pawn race
\* (double steps, captures, a pawn reaching the seventh and eighth rank) and
\* the kingside moves of the fool's mate, and the queen's attempt to take
\* the king on e1 from h4.
Repertoire ==
  {<<A("b", 2), A("b", 4)>>, <<A("b", 4), A("b", 5)>>,
   <<A("b", 4), A("a", 5)>>, <<A("a", 5), A("b", 6)>>,
   <<A("b", 6), A("b", 7)>>, <<A("b", 7), A("c", 6)>>,
   <<A("b", 7), A("a", 8)>>, <<A("b", 5), A("c", 6)>>,
   <<A("f", 2), A("f", 3)>>, <<A("g", 2), A("g", 4)>>,
   <<A("a", 7), A("a", 5)>>, <<A("b", 7), A("b", 6)>>,
   <<A("c", 7), A("c", 5)>>, <<A("e", 7), A("e", 5)>>,
   <<A("d", 8), A("h", 4)>>, <<A("h", 4), A("e", 1)>>}

\* The squares the user clicks under Spec.
ClickSquares == {A("f", 2), A("g", 2), A("f", 3), A("e", 7)}

\* Square references outside the board that a caller of the hook's
\* functions hands in under Spec: a row or a col below 0 or above 7.
OutsideSquares == {Sq(8, 4), Sq(-1, 4), Sq(4, 8), Sq(4, -1), Sq(8, 8)}

\* The drags with such a reference as origin or as destination.
OutsideDrags ==
  {<<o, A("b", 4)>> : o \in OutsideSquares}
    \cup {<<A("b", 2), o>> : o \in OutsideSquares}
    \cup {<<A("b", 7), o>> : o \in OutsideSquares}

\* The drags the user tries under SpecCastling: white clears the
\* kingside and castles short (a2-a3 is a waiting move, the rook steps aside
\* and back); black clears the queenside and castles long, or sends the
\* queen to g4 and g2, from where she attacks f1 and g1.
CastlingRepertoire ==
  {<<A("g", 2), A("g", 4)>>, <<A("f", 1), A("g", 2)>>,
   <<A("g", 1), A("h", 3)>>, <<A("e", 1), A("g", 1)>>,
   <<A("h", 1), A("g", 1)>>, <<A("g", 1), A("h", 1)>>,
   <<A("e", 1), A("c", 1)>>, <<A("a", 2), A("a", 3)>>,
   <<A("d", 7), A("g", 4)>>, <<A("g", 4), A("g", 2)>>,
   <<A("b", 8), A("c", 6)>>, <<A("d", 7), A("d", 6)>>,
   <<A("c", 8), A("e", 6)>>, <<A("d", 8), A("d", 7)>>,
   <<A("e", 8), A("c", 8)>>}

\* The squares the user clicks under SpecCastling.
CastlingClickSquares == {A("e", 1), A("g", 1), A("h", 1)}

\* The game the user plays under SpecStalemate, move by move: the ten-move
\* stalemate 1.e3 a5 2.Qh5 Ra6 3.Qxa5 h5 4.h4 Rah6 5.Qxc7 f6 6.Qxd7+ Kf7
\* 7.Qxb7 Qd3 8.Qxb8 Qh7 9.Qxc8 Kg6 10.Qe6.
StalemateLine ==
  << <<A("e", 2), A("e", 3)>>, <<A("a", 7), A("a", 5)>>,
     <<A("d", 1), A("h", 5)>>, <<A("a", 8), A("a", 6)>>,
     <<A("h", 5), A("a", 5)>>, <<A("h", 7), A("h", 5)>>,
     <<A("h", 2), A("h", 4)>>, <<A("a", 6), A("h", 6)>>,
     <<A("a", 5), A("c", 7)>>, <<A("f", 7), A("f", 6)>>,
     <<A("c", 7), A("d", 7)>>, <<A("e", 8), A("f", 7)>>,
     <<A("d", 7), A("b", 7)>>, <<A("d", 8), A("d", 3)>>,
     <<A("b", 7), A("b", 8)>>, <<A("d", 3), A("h", 7)>>,
     <<A("b", 8), A("c", 8)>>, <<A("f", 7), A("g", 6)>>,
     <<A("c", 8), A("e", 6)>> >>

\* The other game the user plays under SpecStalemate: the fool's mate
\* 1. f3 e5 2. g4 Qh4.
FoolsMate ==
  << <<A("f", 2), A("f", 3)>>, <<A("e", 7), A("e", 5)>>,
     <<A("g", 2), A("g", 4)>>, <<A("d", 8), A("h", 4)>> >>

\* A third game the user plays under SpecStalemate, with a knight move, pawn
\* captures, castling, a promotion of either side and a check:
\* 1. Nf3 d5 2. e4 a6 3. exd5 a5 4. Be2 a4 5. O-O a3 6. d6 axb2 7. dxc7 bxa1
\* 8. cxd8 Kxd8.
NotationLine ==
  << <<A("g", 1), A("f", 3)>>, <<A("d", 7), A("d", 5)>>,
     <<A("e", 2), A("e", 4)>>, <<A("a", 7), A("a", 6)>>,
     <<A("e", 4), A("d", 5)>>, <<A("a", 6), A("a", 5)>>,
     <<A("f", 1), A("e", 2)>>, <<A("a", 5), A("a", 4)>>,
     <<A("e", 1), A("g", 1)>>, <<A("a", 4), A("a", 3)>>,
     <<A("d", 5), A("d", 6)>>, <<A("a", 3), A("b", 2)>>,
     <<A("d", 6), A("c", 7)>>, <<A("b", 2), A("a", 1)>>,
     <<A("c", 7), A("d", 8)>>, <<A("e", 8), A("d", 8)>> >>

\* A fourth game the user plays under SpecStalemate, ending with the pawn
\* move onto the en passant target: 1. b4 a5 2. bxa5 b6 3. axb6 e5 4. b7 c5
\* 5. b7-c6.
EnPassantLine ==
  << <<A("b", 2), A("b", 4)>>, <<A("a", 7), A("a", 5)>>,
     <<A("b", 4), A("a", 5)>>, <<A("b", 7), A("b", 6)>>,
     <<A("a", 5), A("b", 6)>>, <<A("e", 7), A("e", 5)>>,
     <<A("b", 6), A("b", 7)>>, <<A("c", 7), A("c", 5)>>,
     <<A("b", 7), A("c", 6)>> >>

\* A fifth game the user plays under SpecStalemate, in which white castles
\* with check, the rook arriving on the open f-file opposite the king on f7:
\* 1. f4 g5 2. fxg5 f5 3. g4 fxg4 4. Nh3 Kf7 5. Bg2 a6 6. O-O.
CastlingCheckLine ==
  << <<A("f", 2), A("f", 4)>>, <<A("g", 7), A("g", 5)>>,
     <<A("f", 4), A("g", 5)>>, <<A("f", 7), A("f", 5)>>,
     <<A("g", 2), A("g", 4)>>, <<A("f", 5), A("g", 4)>>,
     <<A("g", 1), A("h", 3)>>, <<A("e", 8), A("f", 7)>>,
     <<A("f", 1), A("g", 2)>>, <<A("a", 7), A("a", 6)>>,
     <<A("e", 1), A("g", 1)>> >>

\* The games the user plays under SpecStalemate.
StalemateLines ==
  {StalemateLine, FoolsMate, NotationLine, EnPassantLine, CastlingCheckLine}

\* The squares the user clicks under SpecStalemate.
StalemateClickSquares ==
  {A("e", 6), A("g", 6), A("h", 7), A("h", 5), A("h", 4), A("e", 3),
   A("g", 4)}

-----------------------------------------------------------------------------
(* Specifications *)

Click == \E square \in ClickSquares :
            Len(moveHistory) < MaxPly /\ handleSquareClick(square)

Drag == \E i \in Repertoire :
           Len(moveHistory) < MaxPly /\ handlePieceMove(i[1], i[2])

Reset == resetGame

ClickOutside == \E square \in OutsideSquares : handleSquareClick(square)

DragOutside == \E i \in OutsideDrags : handlePieceMove(i[1], i[2])

Next == Click \/ Drag \/ Reset \/ ClickOutside \/ DragOutside

Spec == Init /\ [][Next]_vars

ClickCastling ==
  \E square \in CastlingClickSquares :
     Len(moveHistory) < MaxPlyCastling /\ handleSquareClick(square)

DragCastling ==
  \E i \in CastlingRepertoire :
     Len(moveHistory) < MaxPlyCastling /\ handlePieceMove(i[1], i[2])

NextCastling == ClickCastling \/ DragCastling \/ Reset

SpecCastling == Init /\ [][NextCastling]_vars

ClickStalemate ==
  \E square \in StalemateClickSquares : handleSquareClick(square)

\* The user replays the line the game was opened with: the drag is its next
\* move or an earlier one.
DragStalemate ==
  \E line \in StalemateLines :
     \E k \in 1 .. Len(line) :
        /\ Len(moveHistory) < MaxPlyStalemate
        /\ moveHistory # <<>> =>
             <<moveHistory[1].from, moveHistory[1].to>> = line[1]
        /\ k <= Len(moveHistory) + 1
        /\ handlePieceMove(line[k][1], line[k][2])

NextStalemate == ClickStalemate \/ DragStalemate \/ Reset

SpecStalemate == Init /\ [][NextStalemate]_vars

\* The boards handed to the attack analyzer and the move generators under
\* SpecProbe: the two kings, a white piece of each type but the pawn on a
\* corner, a centre or an edge square (the white king itself when the type
\* is king), and one pawn of either colour on any other square.
ProbeTypes == {"rook", "bishop", "queen", "knight", "king"}

ProbeSquares == {A("a", 1), A("d", 4), A("e", 8)}

EmptyBoard == [r \in Rows |-> [c \in Cols |-> NoPiece]]

ProbeBoard(type, s, q, color) ==
  LET kings == IF type = "king"
               THEN [EmptyBoard EXCEPT ![1][6] = Piece("king", "black")]
               ELSE [EmptyBoard EXCEPT ![1][6] = Piece("king", "black"),
                                       ![7][6] = Piece("king", "white")]
  IN  [kings EXCEPT ![s.row][s.col] = Piece(type, "white"),
                    ![q.row][q.col] = Piece("pawn", color)]

InitProbe ==
  /\ \E type \in ProbeTypes, s \in ProbeSquares, color \in {"white", "black"} :
        \E q \in {x \in Squares : x # s /\ x.row \in 1 .. 6 /\ x.col # 6} :
           board = ProbeBoard(type, s, q, color)
  /\ currentPlayer = "white"
  /\ selectedSquare = NoSquare
  /\ moveHistory = <<>>
  /\ gameStatus = "playing"
  /\ enPassantTarget = NoSquare

\* A piece is moved by simulateMove to a square it attacks that holds an
\* opposing piece.
ProbeCapture ==
  /\ \E s, t \in Squares :
        /\ At(board, s) # NoPiece
        /\ At(board, t).color = Opponent(At(board, s).color)
        /\ At(board, t).type # "king"
        /\ canPieceAttackSquare(board, s, t)
        /\ board' = simulateMove(board, s, t)
  /\ UNCHANGED <<currentPlayer, selectedSquare, moveHistory, gameStatus,
                 enPassantTarget>>

NextProbe == ProbeCapture

SpecProbe == InitProbe /\ [][NextProbe]_vars

-----------------------------------------------------------------------------
(* Claims *)

\* The last record of moveHistory (of a non-empty history).
LastMove == moveHistory[Len(moveHistory)]

\* The legal destinations of the piece on `from` in the current state.
ValidMovesNow(from) ==
  getValidMoves(board, from, currentPlayer, enPassantTarget, moveHistory)

\* The side to move has at least one legal move.
CanMoveNow == \E from \in Squares : ValidMovesNow(from) # {}

\* moveHistory consists of exactly the first n moves of `line`.
HistoryFollows(line, n) ==
  /\ Len(moveHistory) = n
  /\ \A i \in 1 .. n :
       moveHistory[i].from = line[i][1] /\ moveHistory[i].to = line[i][2]

\* The number of pawns of `color` on board b.
PawnCount(b, color) ==
  Cardinality({s \in Squares :
                 At(b, s).type = "pawn" /\ At(b, s).color = color})

\* C1: in every reachable state, for every square and every destination
\* getValidMoves returns for it, the board makeMove would publish (rook
\* relocation, en passant removal and promotion included) does not have the
\* mover's king in check.
C1_LegalMoveKeepsOwnKingSafe ==
  \A from \in Squares :
     \A to \in ValidMovesNow(from) :
        ~isKingInCheck(NewBoard(board, from, to, enPassantTarget),
                       currentPlayer)

\* C1 witness: the side to move is in check, and some piece has a
\* pseudo-legal move that the filter removes and another that it keeps.
C1_Witness ==
  /\ gameStatus = "check"
  /\ \E from \in Squares :
       /\ ValidMovesNow(from) # {}
       /\ ValidMovesNow(from)
            # PseudoLegalMoves(board, from, enPassantTarget, moveHistory)

\* The board after a true en passant capture by the pawn on `from` of the
\* pawn on `landing`, onto the passed-over square ept.
EnPassantBoard(b, from, ept, landing) ==
  [b EXCEPT ![ept.row][ept.col] = At(b, from),
            ![from.row][from.col] = NoPiece,
            ![landing.row][landing.col] = NoPiece]

\* C2 (as claimed): whenever a pawn has just advanced two rows and a pawn of
\* the side to move stands beside its landing square, that pawn's legal
\* moves include the passed-over square, provided the capture does not leave
\* its own king in check; and a legal pawn move flagged en passant only ever
\* goes to the square passed over on the previous ply.
C2_EnPassantOffered ==
  /\ (enPassantTarget # NoSquare /\ Len(moveHistory) > 0) =>
       \A from \in Squares :
          ( /\ At(board, from).type = "pawn"
            /\ At(board, from).color = currentPlayer
            /\ from.row = LastMove.to.row
            /\ Abs(from.col - LastMove.to.col) = 1
            /\ ~isKingInCheck(EnPassantBoard(board, from, enPassantTarget,
                                             LastMove.to), currentPlayer) )
          => enPassantTarget \in ValidMovesNow(from)
  /\ \A from \in Squares :
        \A to \in ValidMovesNow(from) :
           EnPassantOf(At(board, from), to, enPassantTarget) =>
             /\ Len(moveHistory) > 0
             /\ LastMove.piece.type = "pawn"
             /\ Abs(LastMove.to.row - LastMove.from.row) = 2
             /\ to = Sq((LastMove.from.row + LastMove.to.row) \div 2,
                        LastMove.from.col)

\* C3 (as claimed): every applied move whose record has enPassant = true
\* removes the pawn that double-stepped on the previous ply (it stood on the
\* mover's origin row and the destination column), so the opponent has one
\* pawn fewer, and the destination holds the capturing pawn.
C3_EnPassantRemovesPawn ==
  [][ ( /\ Len(moveHistory) > 0
        /\ Len(moveHistory') = Len(moveHistory) + 1
        /\ moveHistory'[Len(moveHistory')].enPassant )
      => LET m    == moveHistory'[Len(moveHistory')]
             prev == LastMove
         IN  /\ prev.to = Sq(m.from.row, m.to.col)
             /\ At(board', prev.to) = NoPiece
             /\ PawnCount(board', prev.piece.color)
                  = PawnCount(board, prev.piece.color) - 1
             /\ At(board', m.to).type = "pawn"
             /\ At(board', m.to).color = m.piece.color ]_vars

\* C4: enPassantTarget is set exactly when the last applied move was a pawn
\* advancing two rows; it is then the square between that move's origin and
\* destination, that square is empty, and the pawn stands on the adjacent
\* row of the same column.  After any other move, and after reset, it is
\* null.
C4_EnPassantTargetShape ==
  LET doubleStep ==
        /\ Len(moveHistory) > 0
        /\ LastMove.piece.type = "pawn"
        /\ Abs(LastMove.to.row - LastMove.from.row) = 2
  IN  /\ (enPassantTarget # NoSquare) <=> doubleStep
      /\ doubleStep =>
           /\ enPassantTarget
                = Sq((LastMove.from.row + LastMove.to.row) \div 2,
                     LastMove.from.col)
           /\ At(board, enPassantTarget) = NoPiece
           /\ At(board, LastMove.to).type = "pawn"
           /\ At(board, LastMove.to).color = LastMove.piece.color
           /\ LastMove.to.col = enPassantTarget.col
           /\ Abs(LastMove.to.row - enPassantTarget.row) = 1

\* C4 witness: a double step set the target and the next move cleared it.
C4_Witness ==
  /\ Len(moveHistory) >= 2
  /\ moveHistory[Len(moveHistory) - 1].piece.type = "pawn"
  /\ Abs(moveHistory[Len(moveHistory) - 1].to.row
           - moveHistory[Len(moveHistory) - 1].from.row) = 2
  /\ Abs(LastMove.to.row - LastMove.from.row) # 2
  /\ enPassantTarget = NoSquare

\* C5: gameStatus is determined by the side to move: checkmate iff in check
\* with no legal move, stalemate iff not in check with no legal move, check
\* iff in check with a legal move, playing otherwise.
C5_StatusMatchesPosition ==
  LET inCheck == isKingInCheck(board, currentPlayer)
      canMove == CanMoveNow
  IN  /\ gameStatus = "checkmate" <=> (inCheck /\ ~canMove)
      /\ gameStatus = "stalemate" <=> (~inCheck /\ ~canMove)
      /\ gameStatus = "check"     <=> (inCheck /\ canMove)
      /\ gameStatus = "playing"   <=> (~inCheck /\ canMove)

\* C5 witness: the side to move has no legal move and is not in check.
C5_Witness ==
  /\ Len(moveHistory) > 0
  /\ ~isKingInCheck(board, currentPlayer)
  /\ ~CanMoveNow
  /\ gameStatus = "stalemate"

\* C6: from the initial state each of f2-f3, e7-e5, g2-g4, Qd8-h4 is
\* accepted in turn, and after the fourth the status is checkmate, white is
\* to move and no white piece has a legal move.
C6_FoolsMate ==
  \A n \in 0 .. Len(FoolsMate) :
     HistoryFollows(FoolsMate, n) =>
       IF n < Len(FoolsMate)
       THEN isValidMoveAttempt(board, FoolsMate[n + 1][1],
                               FoolsMate[n + 1][2], currentPlayer,
                               enPassantTarget, moveHistory)
       ELSE /\ gameStatus = "checkmate"
            /\ currentPlayer = "white"
            /\ \A from \in Squares : ValidMovesNow(from) = {}

\* C6 witness: the four moves have been played.
C6_Witness == HistoryFollows(FoolsMate, Len(FoolsMate))

\* No record of moveHistory moved a piece from or onto square s.
NeverTouched(s) ==
  \A i \in 1 .. Len(moveHistory) :
     moveHistory[i].from # s /\ moveHistory[i].to # s

\* No record of moveHistory moved a king of `color`.
KingNeverMoved(color) ==
  \A i \in 1 .. Len(moveHistory) :
     ~(moveHistory[i].piece.type = "king"
         /\ moveHistory[i].piece.color = color)

\* The legal king moves of two files in the current state: <<from, to>>.
CastlingOffers ==
  UNION {{<<from, to>> : to \in {t \in ValidMovesNow(from) :
                                   Abs(t.col - from.col) = 2}} :
           from \in {s \in Squares : At(board, s).type = "king"}}

\* C7: a king move of two files is legal only if the king and the rook on
\* the corresponding corner of the king's row have never been moved in the
\* game, the squares between them are empty, the king is not in check, and
\* neither the square it crosses nor its destination is attacked.  In the
\* initial position no castling move is legal.
C7_CastlingOnlyWhenAllowed ==
  /\ \A ft \in CastlingOffers :
        LET from    == ft[1]
            to      == ft[2]
            color   == At(board, from).color
            rookCol == IF to.col > from.col THEN 7 ELSE 0
            rookSq  == Sq(from.row, rookCol)
            between == IF rookCol = 7 THEN {5, 6} ELSE {1, 2, 3}
        IN  /\ color = currentPlayer
            /\ from = Sq(IF color = "white" THEN 7 ELSE 0, 4)
            /\ KingNeverMoved(color)
            /\ At(board, rookSq).type = "rook"
            /\ At(board, rookSq).color = color
            /\ NeverTouched(rookSq)
            /\ \A c \in between : board[from.row][c] = NoPiece
            /\ ~isKingInCheck(board, color)
            /\ ~isSquareUnderAttack(board,
                  Sq(from.row, (from.col + to.col) \div 2), Opponent(color))
            /\ ~isSquareUnderAttack(board, to, Opponent(color))
  /\ moveHistory = <<>> => CastlingOffers = {}

\* C7 witness: castling is on offer after at least six plies.
C7_Witness == CastlingOffers # {} /\ Len(moveHistory) >= 6

\* C8: an applied castling move leaves the king two files from its origin
\* and the rook on the square the king crossed (kingside: king on col 6,
\* rook on col 5, cols 4 and 7 empty; queenside: king on col 2, rook on
\* col 3, cols 0 and 4 empty), both with hasMoved set, and changes no other
\* square.
C8_CastlingRelocatesRook ==
  [][ ( /\ Len(moveHistory') = Len(moveHistory) + 1
        /\ moveHistory'[Len(moveHistory')].castling # "none" )
      => LET m       == moveHistory'[Len(moveHistory')]
             row     == m.from.row
             color   == m.piece.color
             king    == [type |-> "king", color |-> color, hasMoved |-> TRUE]
             rook    == [type |-> "rook", color |-> color, hasMoved |-> TRUE]
             kingCol == IF m.castling = "kingside" THEN 6 ELSE 2
             rookCol == IF m.castling = "kingside" THEN 5 ELSE 3
             corner  == IF m.castling = "kingside" THEN 7 ELSE 0
         IN  /\ m.piece.type = "king"
             /\ Abs(m.to.col - m.from.col) = 2
             /\ m.to = Sq(row, kingCol)
             /\ board'[row][kingCol] = king
             /\ board'[row][rookCol] = rook
             /\ board'[row][4] = NoPiece
             /\ board'[row][corner] = NoPiece
             /\ \A s \in Squares :
                   (s.row # row \/ s.col \notin {4, kingCol, rookCol, corner})
                   => At(board', s) = At(board, s) ]_vars

\* C8 witness: white has castled kingside and black's last move castled
\* queenside.
C8_Witness ==
  /\ Len(moveHistory) > 0
  /\ LastMove.castling = "queenside"
  /\ board[LastMove.from.row][2].type = "king"
  /\ board[LastMove.from.row][3].type = "rook"
  /\ \E i \in 1 .. Len(moveHistory) : moveHistory[i].castling = "kingside"

\* The attempt from -> to must be rejected in the current state: the origin
\* is empty, holds a piece not of currentPlayer, or `to` is not a legal
\* destination.
MustReject(from, to) ==
  \/ At(board, from) = NoPiece
  \/ At(board, from).color # currentPlayer
  \/ to \notin ValidMovesNow(from)

\* C9: an attempt that must be rejected changes nothing: a rejected drag
\* leaves every variable (selectedSquare included) unchanged, a rejected
\* click on `to` with `from` selected leaves board, currentPlayer,
\* moveHistory, gameStatus and enPassantTarget unchanged, and isValidMove is
\* false for the pair; every step that does append a record appends one
\* whose from -> to was a legal attempt of the side to move.
C9_RejectedAttemptChangesNothing ==
  [][ vars' # vars =>
        /\ \A i \in Repertoire :
              MustReject(i[1], i[2]) =>
                /\ ~isValidMoveAttempt(board, i[1], i[2], currentPlayer,
                                       enPassantTarget, moveHistory)
                /\ ~handlePieceMove(i[1], i[2])
        /\ \A to \in ClickSquares :
              (selectedSquare # NoSquare /\ MustReject(selectedSquare, to)
                 /\ handleSquareClick(to))
              => UNCHANGED gameVars
        /\ moveHistory' # moveHistory /\ moveHistory' # <<>> =>
              /\ Len(moveHistory') = Len(moveHistory) + 1
              /\ ~MustReject(moveHistory'[Len(moveHistory')].from,
                             moveHistory'[Len(moveHistory')].to) ]_vars

\* C9 witness: a drag of the repertoire picks up a piece of the side to move
\* and drops it on a pseudo-legal destination that the filter rejects.
C9_Witness ==
  /\ Len(moveHistory) > 0
  /\ \E i \in Repertoire :
       /\ At(board, i[1]).color = currentPlayer
       /\ i[2] \in PseudoLegalMoves(board, i[1], enPassantTarget, moveHistory)
       /\ MustReject(i[1], i[2])

\* C10: currentPlayer is white iff moveHistory has even length, and the i-th
\* record (0-based) records a white piece iff i is even.
C10_TurnsAlternate ==
  /\ currentPlayer = "white" <=> Len(moveHistory) % 2 = 0
  /\ currentPlayer = "black" <=> Len(moveHistory) % 2 = 1
  /\ \A i \in 1 .. Len(moveHistory) :
        moveHistory[i].piece.color = "white" <=> i % 2 = 1

\* C10 witness: both sides have moved, white twice.
C10_Witness == Len(moveHistory) >= 3 /\ currentPlayer = "black"

\* The number of kings of `color` on the board.
KingCount(color) == Cardinality(KingSquares(board, color))

\* C11: in every reachable state the board holds exactly one white king and
\* exactly one black king, and no record of moveHistory captured a king.
C11_OneKingEach ==
  /\ KingCount("white") = 1
  /\ KingCount("black") = 1
  /\ \A i \in 1 .. Len(moveHistory) :
        moveHistory[i].capturedPiece.type # "king"

\* C11 witness: after a capture, the queen on h4 attacks the king on e1 along
\* the open diagonal and the king is still on the board.
C11_Witness ==
  /\ \E i \in 1 .. Len(moveHistory) : moveHistory[i].isCapture
  /\ At(board, A("h", 4)).type = "queen"
  /\ At(board, A("e", 1)).type = "king"
  /\ canPieceAttackSquare(board, A("h", 4), A("e", 1))

\* The game is over.
Terminal == gameStatus \in {"checkmate", "stalemate"}

\* C12: once gameStatus is checkmate or stalemate, getValidMoves is empty for
\* every square, so that no click or drag is accepted: a click on any square
\* leaves board, currentPlayer, moveHistory, gameStatus and enPassantTarget
\* unchanged, and every step either leaves them unchanged or is resetGame.
C12_TerminalStatesAreFinal ==
  [][ Terminal =>
        /\ \A from \in Squares : ValidMovesNow(from) = {}
        /\ \A square \in Squares :
              handleSquareClick(square) => UNCHANGED gameVars
        /\ UNCHANGED gameVars \/ resetGame ]_vars

\* C12 witness: in a stalemate position a click has selected a piece of the
\* side to move and the game is still the same.
C12_Witness ==
  /\ gameStatus = "stalemate"
  /\ selectedSquare # NoSquare
  /\ At(board, selectedSquare).color = currentPlayer
  /\ HistoryFollows(StalemateLine, Len(StalemateLine))

\* The same for a checkmate position.
C12_WitnessCheckmate ==
  /\ gameStatus = "checkmate"
  /\ selectedSquare # NoSquare
  /\ At(board, selectedSquare).color = currentPlayer
  /\ HistoryFollows(FoolsMate, Len(FoolsMate))

\* All legal moves <<from, to>> of the current state, one per destination
\* getValidMoves returns for each of the 64 squares.
AllValidMovesNow ==
  UNION {{<<from, to>> : to \in ValidMovesNow(from)} : from \in Squares}

\* C13: in the initial state (and again after every reset) white is to move,
\* getValidMoves over the 64 squares returns 20 moves in total (two for each
\* pawn, two for each knight), and it is empty for every square that holds a
\* black piece or no piece.
C13_TwentyOpeningMoves ==
  moveHistory = <<>> =>
    /\ board = createInitialBoard
    /\ currentPlayer = "white"
    /\ Cardinality(AllValidMovesNow) = 20
    /\ \A from \in Squares :
          At(board, from).color # "white" => ValidMovesNow(from) = {}
    /\ \A from \in Squares :
          Cardinality(ValidMovesNow(from))
            = IF from.row = 6 \/ from \in {A("b", 1), A("g", 1)}
              THEN 2 ELSE 0

\* C13 witness: the initial position, with the pawn on g2 selected.
C13_Witness ==
  /\ moveHistory = <<>>
  /\ board = createInitialBoard
  /\ selectedSquare = A("g", 2)
  /\ ValidMovesNow(selectedSquare) = {A("g", 3), A("g", 4)}

\* The back rank of the standard starting position, from the a-file.
StandardBackRank ==
  <<"rook", "knight", "bishop", "queen", "king", "bishop", "knight", "rook">>

\* Board b is the standard starting position with no piece marked hasMoved.
IsStandardPosition(b) ==
  \A s \in Squares :
     At(b, s) =
       CASE s.row = 0 -> [type |-> StandardBackRank[s.col + 1],
                          color |-> "black", hasMoved |-> FALSE]
         [] s.row = 1 -> [type |-> "pawn", color |-> "black",
                          hasMoved |-> FALSE]
         [] s.row = 6 -> [type |-> "pawn", color |-> "white",
                          hasMoved |-> FALSE]
         [] s.row = 7 -> [type |-> StandardBackRank[s.col + 1],
                          color |-> "white", hasMoved |-> FALSE]
         [] OTHER     -> NoPiece

\* C14: from any reachable state, resetGame yields the standard starting
\* position with no piece marked hasMoved, white to move, status playing,
\* empty history, no en passant target and no selection; that state is the
\* one the hook starts in.
C14_ResetYieldsInitialState ==
  [][ resetGame =>
        /\ IsStandardPosition(board')
        /\ currentPlayer' = "white"
        /\ gameStatus' = "playing"
        /\ moveHistory' = <<>>
        /\ enPassantTarget' = NoSquare
        /\ selectedSquare' = NoSquare
        /\ board' = createInitialBoard ]_vars

\* C14 witness: a state that differs from the initial one in the board and
\* in every other variable but gameStatus; resetGame is taken from it.
C14_Witness ==
  /\ moveHistory # <<>>
  /\ ~IsStandardPosition(board)
  /\ currentPlayer = "black"
  /\ enPassantTarget # NoSquare
  /\ selectedSquare # NoSquare

\* C15: gameStatus is never draw: in every reachable state it is one of
\* playing, check, checkmate and stalemate.
C15_NeverDraw ==
  /\ gameStatus # "draw"
  /\ gameStatus \in {"playing", "check", "checkmate", "stalemate"}

\* C15 witness: the game has ended without a winner (the side to move is
\* not in check and has no legal move) after a check earlier in the game.
C15_Witness ==
  /\ ~CanMoveNow
  /\ ~isKingInCheck(board, currentPlayer)
  /\ \E i \in 1 .. Len(moveHistory) : moveHistory[i].isCheck
  /\ gameStatus = "stalemate"

\* C16: moveHistory is append-only.  A step that changes the board without
\* being a reset (an applied move) appends exactly one record, which
\* describes that move, and keeps the earlier records as they were and in
\* their order; a step that lengthens the history is such a step; a record
\* is appended only for an attempt that had not to be rejected; and the
\* history gets shorter only by resetGame, which empties it.
C16_HistoryAppendOnly ==
  [][ LET n == Len(moveHistory)
      IN  /\ (board' # board /\ ~resetGame) =>
                /\ Len(moveHistory') = n + 1
                /\ SubSeq(moveHistory', 1, n) = moveHistory
                /\ moveHistory'[n + 1].piece
                     = At(board, moveHistory'[n + 1].from)
                /\ At(board', moveHistory'[n + 1].from) = NoPiece
                /\ At(board', moveHistory'[n + 1].to).color
                     = moveHistory'[n + 1].piece.color
          /\ Len(moveHistory') > n =>
                /\ board' # board
                /\ Len(moveHistory') = n + 1
                /\ SubSeq(moveHistory', 1, n) = moveHistory
          /\ Len(moveHistory') = n => moveHistory' = moveHistory
          /\ Len(moveHistory') < n => resetGame /\ moveHistory' = <<>>
          /\ moveHistory' # moveHistory /\ moveHistory' # <<>> =>
                ~MustReject(moveHistory'[Len(moveHistory')].from,
                            moveHistory'[Len(moveHistory')].to) ]_vars

\* C16 witness: the history holds the opening move b2-b4 as its first
\* record and a promotion as its last.
C16_Witness ==
  /\ Len(moveHistory) > 1
  /\ moveHistory[1].from = A("b", 2)
  /\ moveHistory[1].to = A("b", 4)
  /\ LastMove.promotion = "queen"

\* C17: a pawn move onto row 0 or row 7 has promotion = queen in its record
\* and leaves a queen of the pawn's colour with hasMoved set on the
\* destination; no other record has a promotion; no board has a pawn on
\* row 0 or row 7.
C17_PromotionToQueen ==
  /\ \A i \in 1 .. Len(moveHistory) :
        LET m == moveHistory[i]
        IN  /\ m.promotion \in {"none", "queen"}
            /\ m.promotion = "queen"
                 <=> (m.piece.type = "pawn" /\ m.to.row \in {0, 7})
  /\ (Len(moveHistory) > 0 /\ LastMove.piece.type = "pawn"
        /\ LastMove.to.row \in {0, 7}) =>
       At(board, LastMove.to)
         = [type |-> "queen", color |-> LastMove.piece.color,
            hasMoved |-> TRUE]
  /\ \A s \in Squares :
        s.row \in {0, 7} => At(board, s).type # "pawn"

\* C17 witness: the last move took a white pawn from row 1 to row 0, where
\* a white queen now stands.
C17_Witness ==
  /\ Len(moveHistory) > 0
  /\ LastMove.piece = [type |-> "pawn", color |-> "white", hasMoved |-> TRUE]
  /\ LastMove.from.row = 1
  /\ LastMove.to.row = 0
  /\ At(board, LastMove.to).type = "queen"

\* Record m put a piece on square s: the moved (or promoted) piece on its
\* destination, or the castling rook on the square the king crossed.
PutsPieceOn(m, s) ==
  \/ m.to = s
  \/ /\ m.castling # "none"
     /\ s = Sq(m.from.row, IF m.castling = "kingside" THEN 5 ELSE 3)

\* Some record of moveHistory put a piece on square s.
ArrivedAt(s) ==
  \E i \in 1 .. Len(moveHistory) : PutsPieceOn(moveHistory[i], s)

\* The squares of board b holding a piece without hasMoved.
UnmovedSquares(b) ==
  {s \in Squares : At(b, s) # NoPiece /\ ~At(b, s).hasMoved}

\* C18: after every step that changes the board or the history, a piece
\* has hasMoved set iff a move applied since the last reset put it on its
\* square (as the moved piece, the castling rook or the promoted piece), and
\* every piece without hasMoved is the piece of the initial position on that
\* square; a step other than resetGame marks the pieces it puts on a square
\* and unmarks none: the unmarked pieces of the new board were unmarked, on
\* the same squares, before.
C18_HasMovedTracksMovement ==
  [][ (board' # board \/ moveHistory' # moveHistory) =>
        /\ \A s \in Squares :
              At(board', s) # NoPiece =>
                /\ At(board', s).hasMoved
                     <=> \E i \in 1 .. Len(moveHistory') :
                            PutsPieceOn(moveHistory'[i], s)
                /\ ~At(board', s).hasMoved =>
                     At(board', s) = At(createInitialBoard, s)
        /\ ~resetGame =>
              /\ UnmovedSquares(board') \subseteq UnmovedSquares(board)
              /\ \A s \in UnmovedSquares(board') :
                    At(board', s) = At(board, s)
              /\ \A s \in Squares :
                    PutsPieceOn(moveHistory'[Len(moveHistory')], s) =>
                      At(board', s).hasMoved ]_vars

\* C18 witness: white has just castled kingside: king and rook are marked,
\* the rook on a1 is not.
C18_Witness ==
  /\ Len(moveHistory) > 0
  /\ LastMove.castling = "kingside"
  /\ LastMove.piece.color = "white"
  /\ At(board, A("g", 1)).hasMoved
  /\ At(board, A("f", 1)).type = "rook"
  /\ At(board, A("f", 1)).hasMoved
  /\ ArrivedAt(A("f", 1))
  /\ ~At(board, A("a", 1)).hasMoved

\* C19 (as claimed): the record of a non-capturing knight move from g1 to f3
\* that gives no check has notation Nf3, the record of a pawn on e4
\* capturing on d5 without check has notation exd5, and the record of a
\* kingside castling has notation O-O.
C19_NotationExamples ==
  \A i \in 1 .. Len(moveHistory) :
     LET m == moveHistory[i]
     IN  /\ ( /\ m.piece.type = "knight"
              /\ m.from = A("g", 1) /\ m.to = A("f", 3)
              /\ ~m.isCapture /\ ~m.isCheck ) => m.notation = "Nf3"
         /\ ( /\ m.piece.type = "pawn"
              /\ m.from = A("e", 4) /\ m.to = A("d", 5)
              /\ m.isCapture /\ ~m.isCheck ) => m.notation = "exd5"
         /\ m.castling = "kingside" => m.notation = "O-O"

\* What the code records for the three moves of C19: the knight move is
\* written with the king's letter.
C19_NotationAsRecorded ==
  \A i \in 1 .. Len(moveHistory) :
     LET m == moveHistory[i]
     IN  /\ ( /\ m.piece.type = "knight"
              /\ m.from = A("g", 1) /\ m.to = A("f", 3)
              /\ ~m.isCapture /\ ~m.isCheck ) => m.notation = "Kf3"
         /\ ( /\ m.piece.type = "pawn"
              /\ m.from = A("e", 4) /\ m.to = A("d", 5)
              /\ m.isCapture /\ ~m.isCheck ) => m.notation = "exd5"
         /\ m.castling = "kingside" => m.notation = "O-O"

\* The three moves of C19 have been played.
C19_AllThreePlayed ==
  /\ Len(moveHistory) >= 9
  /\ moveHistory[1].notation = "Kf3"
  /\ moveHistory[5].notation = "exd5"
  /\ moveHistory[9].notation = "O-O"

\* The letters of the files, cols 0 to 7, and the digits of the ranks,
\* rows 0 to 7, as C20 describes them.
FileLetterOf(col) ==
  CASE col = 0 -> "a" [] col = 1 -> "b" [] col = 2 -> "c" [] col = 3 -> "d"
    [] col = 4 -> "e" [] col = 5 -> "f" [] col = 6 -> "g" [] col = 7 -> "h"

RankDigitOf(row) ==
  CASE 8 - row = 1 -> "1" [] 8 - row = 2 -> "2" [] 8 - row = 3 -> "3"
    [] 8 - row = 4 -> "4" [] 8 - row = 5 -> "5" [] 8 - row = 6 -> "6"
    [] 8 - row = 7 -> "7" [] 8 - row = 8 -> "8"

\* The uppercase first letter of a piece type.
UppercaseInitial(type) ==
  CASE type = "king" -> "K" [] type = "knight" -> "K" [] type = "queen" -> "Q"
    [] type = "rook" -> "R" [] type = "bishop" -> "B" [] type = "pawn" -> "P"

\* C20: right after every applied non-castling move, the notation of its
\* record is the concatenation of the piece letter (empty for a pawn, the
\* origin file letter for a pawn capture, otherwise the uppercase first
\* letter of the piece type), x iff the record's isCapture is true, the
\* destination as file letter and rank digit 8 - row, =Q iff the move
\* promoted, and a suffix that is # iff the side now to move is checkmated,
\* + iff it is in check and not mated, and empty otherwise.
C20_NotationComposition ==
  (Len(moveHistory) > 0 /\ LastMove.castling = "none") =>
    LET m        == LastMove
        inCheck  == isKingInCheck(board, currentPlayer)
        mated    == inCheck /\ ~CanMoveNow
        promoted == m.piece.type = "pawn" /\ At(board, m.to).type = "queen"
        letter   == IF m.piece.type = "pawn"
                    THEN (IF m.isCapture THEN FileLetterOf(m.from.col)
                          ELSE "")
                    ELSE UppercaseInitial(m.piece.type)
        capture  == IF m.isCapture THEN "x" ELSE ""
        square   == FileLetterOf(m.to.col) \o RankDigitOf(m.to.row)
        queened  == IF promoted THEN "=Q" ELSE ""
        suffix   == IF mated THEN "#" ELSE IF inCheck THEN "+" ELSE ""
    IN  m.notation = letter \o capture \o square \o queened \o suffix

\* C20 witness: the last move was a capturing promotion with check, written
\* cxd8=Q+, after a knight move, a bishop move and a plain pawn move.
C20_Witness ==
  /\ Len(moveHistory) > 0
  /\ LastMove.notation = "cxd8=Q+"
  /\ LastMove.promotion = "queen"
  /\ gameStatus = "check"
  /\ \E i \in 1 .. Len(moveHistory) : moveHistory[i].notation = "Kf3"
  /\ \E i \in 1 .. Len(moveHistory) : moveHistory[i].notation = "Be2"
  /\ \E i \in 1 .. Len(moveHistory) : moveHistory[i].notation = "d6"

\* C21: the notation of every castling record is exactly O-O (kingside) or
\* O-O-O (queenside), whatever its isCheck and isCheckmate.
C21_CastlingNotationBare ==
  \A i \in 1 .. Len(moveHistory) :
     LET m == moveHistory[i]
     IN  /\ m.castling = "kingside" => m.notation = "O-O"
         /\ m.castling = "queenside" => m.notation = "O-O-O"

\* C21 witness: white has just castled kingside with check (the black king
\* stands on the f-file, which the rook on f1 now commands).
C21_Witness ==
  /\ Len(moveHistory) > 0
  /\ LastMove.castling = "kingside"
  /\ LastMove.isCheck
  /\ gameStatus = "check"
  /\ isKingInCheck(board, "black")
  /\ LastMove.notation = "O-O"

\* C22 (as claimed): for a square reference with row or col outside 0..7,
\* no entry point throws on it (handleSquareClick, isValidMoveAttempt and
\* getValidMoves read board[row][col] of it first), getValidMoves returns
\* no move for it as origin, and isValidMoveAttempt is false with it as
\* origin or as destination.
C22_OutsideSquaresRejected ==
  \A o \in OutsideSquares :
     /\ ~IndexThrows(o)
     /\ getValidMoves(board, o, currentPlayer, enPassantTarget,
                      moveHistory) = {}
     /\ \A t \in Squares :
           /\ ~isValidMoveAttempt(board, o, t, currentPlayer,
                                  enPassantTarget, moveHistory)
           /\ ~isValidMoveAttempt(board, t, o, currentPlayer,
                                  enPassantTarget, moveHistory)

\* What the code does with such references: the read throws exactly for a
\* row outside 0..7; a reference whose row is inside is rejected with an
\* empty or false result, and so is any reference as destination; a click
\* or drag with such a reference leaves board, currentPlayer, moveHistory,
\* gameStatus and enPassantTarget unchanged, thrown or not.
C22_OutsideSquaresAsImplemented ==
  [][ /\ \A o \in OutsideSquares :
            /\ IndexThrows(o) <=> (o.row < 0 \/ o.row > 7)
            /\ ~IndexThrows(o) =>
                  /\ getValidMoves(board, o, currentPlayer, enPassantTarget,
                                   moveHistory) = {}
                  /\ \A t \in ClickSquares :
                        ~isValidMoveAttempt(board, o, t, currentPlayer,
                                            enPassantTarget, moveHistory)
            /\ \A t \in ClickSquares :
                  ~isValidMoveAttempt(board, t, o, currentPlayer,
                                      enPassantTarget, moveHistory)
      /\ ClickOutside => UNCHANGED gameVars
      /\ DragOutside => UNCHANGED vars ]_vars

\* The squares holding a piece of the side to move.
OwnSquares == {s \in Squares : At(board, s).color = currentPlayer}

\* C23: no operation writes to its input board.  In every reachable state,
\* for every piece of the side to move, after each simulateMove that
\* getValidMoves and hasValidMoves run for a candidate destination, and
\* after makeMove for each legal destination, the input board read through
\* its own row arrays is the board as it was, cell by cell, and the board
\* the operation returns or publishes, read through the new row arrays, is
\* the moved position.  (isKingInCheck writes nothing and calls neither.)
C23_InputBoardNotMutated ==
  \A from \in OwnSquares :
     /\ \A to \in PseudoLegalMoves(board, from, enPassantTarget,
                                    moveHistory) :
           LET heap == simulateMoveHeap(board, from, to)
           IN  /\ BoardAt(heap, [r \in Rows |-> r]) = board
               /\ BoardAt(heap, BoardCopy) = simulateMove(board, from, to)
     /\ \A to \in ValidMovesNow(from) :
           LET heap == makeMoveHeap(board, from, to, enPassantTarget)
           IN  /\ BoardAt(heap, [r \in Rows |-> r]) = board
               /\ BoardAt(heap, BoardCopy)
                    = NewBoard(board, from, to, enPassantTarget)

\* C23 witness: castling is legal, and makeMove for it writes four cells of
\* the king's row in the new board while the input board keeps the king and
\* the rook where they were.
C23_Witness ==
  \E ft \in CastlingOffers :
     LET heap == makeMoveHeap(board, ft[1], ft[2], enPassantTarget)
         new  == BoardAt(heap, BoardCopy)
         old  == BoardAt(heap, [r \in Rows |-> r])
     IN  /\ Cardinality({s \in Squares : At(new, s) # At(old, s)}) = 4
         /\ At(old, ft[1]).type = "king"
         /\ At(new, ft[1]) = NoPiece
         /\ old = board

\* C24: in every reachable state and for every square, a second call of
\* getValidMoves, made on the board as the first call left it and with the
\* same other arguments, returns the same set of destinations as the first,
\* and the board is as it was before the calls.  (The calls are not steps:
\* currentPlayer, moveHistory, gameStatus and enPassantTarget are only read.)
C24_GetValidMovesRepeatable ==
  \A from \in Squares :
     LET first  == ValidMovesNow(from)
         after  == getValidMovesInputAfter(board, from,
                     IF from \in OwnSquares
                     THEN PseudoLegalMoves(board, from, enPassantTarget,
                                           moveHistory)
                     ELSE {})
         second == getValidMoves(after, from, currentPlayer, enPassantTarget,
                                 moveHistory)
     IN  after = board /\ second = first

\* C24 witness: the side to move is in check and the selected piece has
\* candidate moves of which the filter keeps some and drops others.
C24_Witness ==
  /\ isKingInCheck(board, currentPlayer)
  /\ selectedSquare # NoSquare
  /\ ValidMovesNow(selectedSquare) # {}
  /\ ValidMovesNow(selectedSquare)
       # PseudoLegalMoves(board, selectedSquare, enPassantTarget, moveHistory)

\* The pawn of `color` moves forward from row r1 to row r2.
Forward(color, r1, r2) == IF color = "white" THEN r2 < r1 ELSE r2 > r1

\* C25 (as claimed): every pawn move recorded in moveHistory goes forward
\* (a white pawn to a smaller row, a black pawn to a greater one), en
\* passant moves included, and every legal move generated for a pawn of the
\* side to move goes forward.
C25_PawnsMoveForward ==
  /\ \A i \in 1 .. Len(moveHistory) :
        moveHistory[i].piece.type = "pawn" =>
          Forward(moveHistory[i].piece.color, moveHistory[i].from.row,
                  moveHistory[i].to.row)
  /\ \A from \in Squares :
        At(board, from).type = "pawn" =>
          \A to \in ValidMovesNow(from) :
             Forward(At(board, from).color, from.row, to.row)

\* Every pawn move that is not flagged en passant goes forward.
C25_OtherPawnMovesForward ==
  \A i \in 1 .. Len(moveHistory) :
     (moveHistory[i].piece.type = "pawn" /\ ~moveHistory[i].enPassant) =>
       Forward(moveHistory[i].piece.color, moveHistory[i].from.row,
               moveHistory[i].to.row)

\* The number of pieces of `color` on board b.
PieceCount(b, color) ==
  Cardinality({s \in Squares : At(b, s).color = color})

\* C26 (as claimed): for every record, at the step that appends it,
\* isCapture is true exactly when the move removed one opposing piece from
\* the board; in that case capturedPiece is present, is of the opposing
\* colour and no longer stands where it stood; and when isCapture is false
\* the number of opposing pieces is unchanged.
C26_IsCaptureMeansRemoval ==
  [][ Len(moveHistory') = Len(moveHistory) + 1 =>
        LET m       == moveHistory'[Len(moveHistory')]
            opp     == Opponent(m.piece.color)
            removed == PieceCount(board, opp) - PieceCount(board', opp)
        IN  /\ m.isCapture <=> removed = 1
            /\ m.isCapture =>
                  /\ m.capturedPiece # NoPiece
                  /\ m.capturedPiece.color = opp
                  /\ \E s \in Squares :
                        /\ At(board, s) = m.capturedPiece
                        /\ At(board', s) # m.capturedPiece
            /\ ~m.isCapture => removed = 0 ]_vars

\* The same for the records not flagged en passant.
C26_OrdinaryCaptures ==
  [][ ( /\ Len(moveHistory') = Len(moveHistory) + 1
        /\ ~moveHistory'[Len(moveHistory')].enPassant ) =>
        LET m       == moveHistory'[Len(moveHistory')]
            opp     == Opponent(m.piece.color)
            removed == PieceCount(board, opp) - PieceCount(board', opp)
        IN  /\ m.isCapture <=> removed = 1
            /\ m.isCapture =>
                  /\ m.capturedPiece = At(board, m.to)
                  /\ m.capturedPiece.color = opp
            /\ ~m.isCapture => removed = 0 ]_vars

\* The capturedPieces tally of `color`: the records of history h whose
\* capturedPiece has that colour.
CapturedCount(h, color) ==
  Cardinality({i \in 1 .. Len(h) : h[i].capturedPiece.color = color})

\* C27: after every step that changes the board, for each colour the
\* pieces of that colour on the board and the records with a capturedPiece
\* of that colour number 16 together, and the board holds no more pieces
\* than before the step, unless the step is resetGame.
C27_PieceConservation ==
  [][ board' # board =>
        /\ \A color \in {"white", "black"} :
              PieceCount(board', color) + CapturedCount(moveHistory', color)
                = 16
        /\ ~resetGame =>
              PieceCount(board', "white") + PieceCount(board', "black")
                <= PieceCount(board, "white") + PieceCount(board, "black") ]_vars

\* C27 witness: pieces of both colours have been captured, by a promoting
\* pawn among others, and both sides have promoted.
C27_Witness ==
  /\ CapturedCount(moveHistory, "white") >= 2
  /\ CapturedCount(moveHistory, "black") >= 2
  /\ PieceCount(board, "white") < 16
  /\ PieceCount(board, "black") < 16
  /\ \E i, j \in 1 .. Len(moveHistory) :
        /\ moveHistory[i].promotion = "queen"
        /\ moveHistory[i].piece.color = "white"
        /\ moveHistory[j].promotion = "queen"
        /\ moveHistory[j].piece.color = "black"

\* C28: whenever makeMove takes its castling branch, the king starts on
\* column 4 of its own back rank, and the corner square the branch reads
\* (column 7 or 0 of that row) holds a rook of the mover's colour without
\* hasMoved, which no earlier move has left or reached; and on every board
\* reached by a move, each castling offer of the generator has such a rook
\* on its corner.
C28_CastlingBranchReadsOwnRook ==
  [][ Len(moveHistory') = Len(moveHistory) + 1 =>
        /\ LET m      == moveHistory'[Len(moveHistory')]
               color  == m.piece.color
               corner == Sq(m.from.row, IF m.to.col > m.from.col THEN 7 ELSE 0)
           IN  (m.piece.type = "king" /\ Abs(m.to.col - m.from.col) = 2) =>
                 /\ m.castling # "none"
                 /\ color = currentPlayer
                 /\ m.from = Sq(IF color = "white" THEN 7 ELSE 0, 4)
                 /\ ~m.piece.hasMoved
                 /\ At(board, corner)
                      = [type |-> "rook", color |-> color,
                         hasMoved |-> FALSE]
                 /\ NeverTouched(corner)
                 /\ ~ArrivedAt(corner)
        /\ \A from \in KingSquares(board', currentPlayer') :
              \A to \in {t \in getValidMoves(board', from, currentPlayer',
                                              enPassantTarget', moveHistory') :
                           Abs(t.col - from.col) = 2} :
                 /\ from.col = 4
                 /\ At(board', Sq(from.row, IF to.col > 4 THEN 7 ELSE 0))
                      = [type |-> "rook", color |-> currentPlayer',
                         hasMoved |-> FALSE] ]_vars

\* C28 witness: black has just castled queenside from e8; its rook stands
\* on d8 and a8 is empty.
C28_Witness ==
  /\ Len(moveHistory) > 0
  /\ LastMove.castling = "queenside"
  /\ LastMove.from = A("e", 8)
  /\ LastMove.piece.color = "black"
  /\ At(board, A("d", 8)).type = "rook"
  /\ At(board, A("a", 8)) = NoPiece

\* The non-castling destinations the generator gives the piece on s before
\* the self-check filter.
GeneratedMoves(b, s) ==
  CASE At(b, s).type = "rook"   -> getRookMoves(b, s)
    [] At(b, s).type = "bishop" -> getBishopMoves(b, s)
    [] At(b, s).type = "queen"  -> getQueenMoves(b, s)
    [] At(b, s).type = "knight" -> getKnightMoves(b, s)
    [] At(b, s).type = "king"   -> OffsetMoves(b, s, kingMoves)
    [] OTHER -> {}

\* C29: on every board, for every rook, bishop, queen, knight or king of
\* either colour on a square s, the other squares t that are empty or hold
\* an opposing piece and for which canPieceAttackSquare(board, s, t) is true
\* are exactly the non-castling pseudo-legal destinations of the piece.
C29_AnalyzerAgreesWithGenerator ==
  \A s \in {x \in Squares :
              At(board, x).type \in {"rook", "bishop", "queen", "knight",
                                     "king"}} :
     {t \in Squares \ {s} :
        /\ At(board, t).color # At(board, s).color
        /\ canPieceAttackSquare(board, s, t)}
       = GeneratedMoves(board, s)

\* C29 witness: a queen attacks an opposing piece, which shields the empty
\* square behind it on the same line from her.
C29_Witness ==
  \E s, t \in Squares :
     LET u == Sq(2 * t.row - s.row, 2 * t.col - s.col)
     IN  /\ At(board, s).type = "queen"
         /\ At(board, t).color = Opponent(At(board, s).color)
         /\ canPieceAttackSquare(board, s, t)
         /\ isInBounds(u)
         /\ At(board, u) = NoPiece
         /\ ~canPieceAttackSquare(board, s, u)
         /\ u \notin GeneratedMoves(board, s)

\* The parts of the selection protocol that do not depend on which own
\* piece is clicked.  In a state: a selected square holds a piece of
\* currentPlayer; with nothing selected, a click that applies no move
\* selects the square iff it holds a piece of currentPlayer; with a
\* selection, a click on a square that holds no piece of currentPlayer and
\* is no legal destination clears the selection, and a click on a legal
\* destination passes the handler's test for applying the move.
SelectionState ==
  /\ selectedSquare # NoSquare =>
        At(board, selectedSquare).color = currentPlayer
  /\ selectedSquare = NoSquare =>
        \A square \in Squares :
           SelectionAfterClick(board, selectedSquare, square, currentPlayer)
             = IF At(board, square).color = currentPlayer
               THEN square
               ELSE NoSquare
  /\ selectedSquare # NoSquare =>
        \A square \in Squares \ ValidMovesNow(selectedSquare) :
           At(board, square).color # currentPlayer =>
             SelectionAfterClick(board, selectedSquare, square, currentPlayer)
               = NoSquare
  /\ selectedSquare # NoSquare =>
        \A square \in ValidMovesNow(selectedSquare) :
           isValidMoveAttempt(board, selectedSquare, square, currentPlayer,
                              enPassantTarget, moveHistory)

\* In a step: the selection is null after every applied move and after
\* reset, and a step that applies a move of the selected piece is the step
\* that a click on the move's destination takes.
SelectionStep ==
  /\ moveHistory' # moveHistory => selectedSquare' = NoSquare
  /\ ( /\ selectedSquare # NoSquare
       /\ Len(moveHistory') = Len(moveHistory) + 1
       /\ moveHistory'[Len(moveHistory')].from = selectedSquare )
       => handleSquareClick(moveHistory'[Len(moveHistory')].to)

SquareColorNow(square) ==
  getSquareColor(square, selectedSquare, validMoves, isInCheck, board,
                 currentPlayer)

\* C31: getSquareColor has a fixed precedence: "selected" for the selected
\* square; otherwise "valid" for a legal destination of the selected piece;
\* otherwise "check" exactly for the square that holds currentPlayer's king
\* while gameStatus is "check" or "checkmate", which is exactly when that
\* king is in check; otherwise "normal".  At most one square is "check" and
\* the opponent's king is never "check".
C31_SquareColorPrecedence ==
  LET valid == validMoves
      inCheck == isInCheck
      color == [square \in Squares |->
                  getSquareColor(square, selectedSquare, valid, inCheck,
                                 board, currentPlayer)]
      ownKing == kingPosition(board, currentPlayer)
  IN  /\ inCheck <=> gameStatus \in {"check", "checkmate"}
      /\ \A square \in Squares :
            color[square] =
              IF square = selectedSquare THEN "selected"
              ELSE IF square \in valid THEN "valid"
              ELSE IF gameStatus \in {"check", "checkmate"}
                      /\ square = ownKing
              THEN "check"
              ELSE "normal"
      /\ Cardinality({square \in Squares : color[square] = "check"}) <= 1
      /\ \A square \in Squares :
            At(board, square) = [type |-> "king",
                                 color |-> Opponent(currentPlayer),
                                 hasMoved |-> At(board, square).hasMoved]
              => color[square] # "check"

\* C31 witness: the side to move is in check and has selected a piece that
\* can answer it, so that all four highlights are on the board at once.
C31_Witness ==
  /\ gameStatus = "check"
  /\ selectedSquare # NoSquare
  /\ validMoves # {}
  /\ SquareColorNow(kingPosition(board, currentPlayer)) = "check"

====
